---- MODULE Spec2Model ----
(***************************************************************************)
(* Model of src/dbs/pgsql_reconnect_helper.py: the BaseRenew mixin and the *)
(* two handle classes RenewCursor and RetryConnection built on psycopg2's  *)
(* connection and cursor types.                                            *)
(*                                                                         *)
(* The heap holds every connection and cursor object ever constructed.     *)
(* Every method of the source is an operator from program state to program *)
(* state; a raised exception is carried in the field exc and makes every   *)
(* following statement a no-op until a matching except clause clears it.   *)
(* One action is one complete call made by the caller.                     *)
(***************************************************************************)
EXTENDS Integers, Sequences, FiniteSets, TLC

\* ------------------------------------------------------------------ bounds
MaxObjects == 4    \* connection and cursor objects constructed in a run
MaxScript == 2     \* driver execute outcomes the environment scripts per call

\* ------------------------------------------------------------- the values
None == 0
Sqls == {"SELECT 1", "SELECT 2"}

\* The program stores and copies construction arguments without reading
\* them, so the caller's arguments are taken distinct from call to call: the
\* i-th connection the program holds is opened on Dsn(i), the i-th cursor
\* is asked for under Name(i).
Dsn(i) == <<"dsn1", "dsn2", "dsn3", "dsn4", "dsn5", "dsn6", "dsn7">>[i]
Name(i) == <<"nm1", "nm2", "nm3", "nm4", "nm5", "nm6", "nm7">>[i]

\* A ConstructionSpec: positional arguments and keyword arguments.
ConstructionSpec(args, kwargs) == [args |-> args, kwargs |-> kwargs]
NoSpec == ConstructionSpec(<<>>, {})

\* Exceptions: class and message.  NoExc is "nothing raised".
Exc(cls, msg) == [cls |-> cls, msg |-> msg]
NoExc == Exc("none", "")
CursorClosedError == Exc("InterfaceError", "cursor already closed")
ConnectionClosedError == Exc("InterfaceError", "connection already closed")
OtherInterfaceError == Exc("InterfaceError", "the cursor has no connection")
ProgrammingError == Exc("ProgrammingError", "syntax error")
NameError == Exc("NameError", "name 'logging' is not defined")
AttributeError == Exc("AttributeError", "'super' object has no attribute 'close'")
\* Not Python exceptions.  Overflow: the call needs more objects than the
\* bounds allow.  Starved: the call asks the driver for an outcome that the
\* environment has not chosen yet.
Overflow == Exc("Overflow", "")
Starved == Exc("Starved", "")

\* What one driver-level execute may do when the handle is usable: succeed
\* (NoExc) or raise one of these.
DriverOutcomes ==
  {NoExc, CursorClosedError, ConnectionClosedError, OtherInterfaceError,
   ProgrammingError}

\* The keyword arguments a caller passes to cursor(): the cursor factory
\* left out or named.
CallKwargs == {{}, {<<"cursor_factory", "RenewCursor">>}}

VARIABLES
  conns,   \* heap of connection objects: args, kwargs, sub, closed
  curs,    \* heap of cursor objects: conn, args, kwargs, sub, closed
  call     \* the caller's last call: what it was, what it did, how it ended

vars == <<conns, curs, call>>

\* --------------------------------------------------------- trace of a call
\* One event per driver-level operation performed inside a call.
Event(ev, k, h) ==
  [ev |-> ev, k |-> k, h |-> h, on |-> None, spec |-> NoSpec, sql |-> "",
   res |-> NoExc]

\* The state a call runs on.
State(cn, cu, outs) ==
  [conns |-> cn, curs |-> cu, outs |-> outs, used |-> 0, trace |-> <<>>,
   exc |-> NoExc, ret |-> None]

Raised(st) == st.exc # NoExc
Raise(st, e) == IF Raised(st) THEN st ELSE [st EXCEPT !.exc = e]
Log(st, e) == [st EXCEPT !.trace = Append(@, e)]

\* ------------------------------------------------------- psycopg2 (driver)
\* psycopg2.extensions.connection.__init__ followed by BaseRenew.__init__:
\* a new, open connection object that stores its construction arguments.
RetryConnection_init(st, args, kwargs) ==
  IF Raised(st) THEN st
  ELSE IF Len(st.conns) + Len(st.curs) >= MaxObjects THEN Raise(st, Overflow)
  ELSE LET n == Len(st.conns) + 1
           o == [args |-> args, kwargs |-> kwargs, sub |-> None,
                 closed |-> FALSE]
       IN  [Log(st, [Event("new_conn", "connection", n) EXCEPT
                       !.spec = ConstructionSpec(args, kwargs)])
              EXCEPT !.conns = Append(@, o), !.ret = n]

\* psycopg2.extensions.cursor.__init__ followed by BaseRenew.__init__, as
\* called by the driver's connection.cursor(): RenewCursor(conn, name).  The
\* stored arguments are the constructor's: the connection and the name.
RenewCursor_init(st, conn, name) ==
  IF Raised(st) THEN st
  ELSE IF Len(st.conns) + Len(st.curs) >= MaxObjects THEN Raise(st, Overflow)
  ELSE LET c == Len(st.curs) + 1
           o == [conn |-> conn, args |-> <<"<connection>", name>>,
                 kwargs |-> {}, sub |-> None, closed |-> FALSE]
       IN  [st EXCEPT !.curs = Append(@, o), !.ret = c]

\* The driver's connection.cursor(name, cursor_factory): refuses a closed
\* connection, else calls cursor_factory(connection, name).
Driver_cursor(st, n, args, kwargs) ==
  IF Raised(st) THEN st
  ELSE IF st.conns[n].closed THEN Raise(st, ConnectionClosedError)
  ELSE LET name == IF Len(args) > 0 THEN args[1] ELSE "None"
           s1 == RenewCursor_init(st, n, name)
       IN  IF Raised(s1) THEN s1
           ELSE Log(s1, [Event("new_cur", "cursor", s1.ret) EXCEPT
                           !.on = n, !.spec = ConstructionSpec(args, kwargs)])

\* The driver's cursor.execute: refuses a closed cursor or a cursor of a
\* closed connection, else does what the environment chose for this attempt.
\* The environment chooses the outcomes of the first MaxScript attempts of a
\* call; later attempts succeed.
Driver_execute(st, c, sql) ==
  IF Raised(st) THEN st
  ELSE LET dead == st.curs[c].closed \/ st.conns[st.curs[c].conn].closed
           free == ~dead /\ st.used >= MaxScript
           o == IF dead THEN CursorClosedError
                ELSE IF free THEN NoExc
                ELSE Head(st.outs)
       IN  IF ~dead /\ ~free /\ st.outs = <<>> THEN Raise(st, Starved)
           ELSE Raise(
                  [Log(st, [Event("execute", "cursor", c) EXCEPT
                              !.sql = sql, !.res = o])
                     EXCEPT !.outs = IF dead \/ free THEN @ ELSE Tail(@),
                            !.used = IF dead \/ free THEN @ ELSE @ + 1],
                  o)

\* The driver's close() of a cursor or of a connection: marks that one
\* object closed; closing twice is allowed.
Driver_close(st, k, h) ==
  IF Raised(st) THEN st
  ELSE IF k = "cursor"
       THEN [Log(st, Event("close", k, h)) EXCEPT !.curs[h].closed = TRUE]
       ELSE [Log(st, Event("close", k, h)) EXCEPT !.conns[h].closed = TRUE]

\* The attribute a handle has by itself (object.__getattribute__).  A
\* psycopg2 cursor reports closed when it or its connection is closed.
Driver_getattr(st, k, h, key) ==
  IF k = "cursor"
  THEN CASE key = "closed" ->
              st.curs[h].closed \/ st.conns[st.curs[h].conn].closed
         [] key = "connection" -> st.curs[h].conn
         [] OTHER -> <<key, h>>
  ELSE CASE key = "closed" -> st.conns[h].closed
         [] OTHER -> <<key, h>>

\* ----------------------------------------------------------- BaseRenew
sub(st, k, h) == IF k = "cursor" THEN st.curs[h].sub ELSE st.conns[h].sub
args(st, k, h) == IF k = "cursor" THEN st.curs[h].args ELSE st.conns[h].args
kwargs(st, k, h) ==
  IF k = "cursor" THEN st.curs[h].kwargs ELSE st.conns[h].kwargs

\* Mutant of set_sub: the successor reference is not assigned.
set_sub_nothing(st, k, h, obj) == st

set_sub(st, k, h, obj) ==
  IF Raised(st) THEN st
  ELSE IF k = "cursor" THEN [st EXCEPT !.curs[h].sub = obj]
       ELSE [st EXCEPT !.conns[h].sub = obj]

\* Mutant of set_args_kwargs: the cursor keeps what its constructor stored.
set_args_kwargs_nothing(st, c, a, kw) == st

set_args_kwargs(st, c, a, kw) ==
  IF Raised(st) THEN st
  ELSE [st EXCEPT !.curs[c].args = a, !.curs[c].kwargs = kw]

\* Mutant of fix_attrs: the cursor's list lacks 'connection'.
fix_attrs_no_connection(k) ==
  IF k = "cursor" THEN {"closed", "fetchall", "fetchone"}
  ELSE {"closed", "connection"}

fix_attrs(k) ==
  IF k = "cursor" THEN {"closed", "connection", "fetchall", "fetchone"}
  ELSE {"closed", "connection"}

RECURSIVE getattribute(_, _, _, _)
getattribute(st, k, h, key) ==
  IF key \in fix_attrs(k) /\ sub(st, k, h) # None
  THEN getattribute(st, k, sub(st, k, h), key)
  ELSE Driver_getattr(st, k, h, key)

\* Mutant of logging: the name is bound and the call returns.
logging_imported(st) == st

\* logging.debug / logging.warning: the module never imports logging, so
\* evaluating the name raises NameError.
logging(st) == Raise(st, NameError)

\* Mutant of method_close: the call returns without closing anything.
method_close_nothing(st, k, h) == st

\* obj.close() as Python resolves it: both classes list the psycopg2 base
\* first, so the driver's close is found before BaseRenew.close.
method_close(st, k, h) == Driver_close(st, k, h)

\* BaseRenew.close, reached only by naming it: BaseRenew.close(obj).  The
\* class after BaseRenew in the method resolution order is object, which
\* has no close.
close(st, k, h, recursive) ==
  LET s1 == IF recursive /\ sub(st, k, h) # None
            THEN method_close(st, k, sub(st, k, h))
            ELSE st
  IN  Raise(s1, AttributeError)

setdefault(kw, key, value) ==
  IF \E p \in kw : p[1] = key THEN kw ELSE kw \cup {<<key, value>>}

RECURSIVE solve_conn_curs(_, _, _, _, _)
RECURSIVE cursor(_, _, _, _)

\* RetryConnection.__cursor
private_cursor(st, n, a, kw) ==
  IF Raised(st) THEN st
  ELSE IF sub(st, "connection", n) # None
       THEN cursor(st, sub(st, "connection", n), a, kw)
       ELSE Driver_cursor(st, n, a, kw)

\* Mutant of cursor: a closed connection is not renewed first.
cursor_no_renew(st, n, a, kw) ==
  IF Raised(st) THEN st
  ELSE LET kw1 == setdefault(kw, "cursor_factory", "RenewCursor")
           s2 == private_cursor(st, n, a, kw1)
       IN  set_args_kwargs(s2, s2.ret, a, kw1)

\* Mutant of cursor: the handle is renewed whether or not it reports closed,
\* and the cursor is taken from the new successor.
cursor_always_renew(st, n, a, kw) ==
  IF Raised(st) THEN st
  ELSE LET s1 == solve_conn_curs(st, "connection", n, "connection", n)
           kw1 == setdefault(kw, "cursor_factory", "RenewCursor")
           s2 == IF Raised(s1) THEN s1
                 ELSE Driver_cursor(s1, sub(s1, "connection", n), a, kw1)
       IN  set_args_kwargs(s2, s2.ret, a, kw1)

\* RetryConnection.cursor
cursor(st, n, a, kw) ==
  IF Raised(st) THEN st
  ELSE LET cursor_factory == "RenewCursor"
           s1 == IF getattribute(st, "connection", n, "closed")
                 THEN solve_conn_curs(st, "connection", n, "connection", n)
                 ELSE st
           kw1 == setdefault(kw, "cursor_factory", cursor_factory)
           s2 == private_cursor(s1, n, a, kw1)
       IN  set_args_kwargs(s2, s2.ret, a, kw1)

\* Mutant of solve_conn_curs: the new connection is built from self's stored
\* arguments instead of the closed connection's.
solve_conn_curs_self_args(st, k, h, ck, x) ==
  IF Raised(st) THEN st
  ELSE IF ck = "cursor"
  THEN LET old == getattribute(st, "cursor", x, "connection")
           renew == getattribute(st, "connection", old, "closed")
           s1 == IF renew
                 THEN RetryConnection_init(st, args(st, k, h), kwargs(st, k, h))
                 ELSE st
           conn == IF renew THEN s1.ret ELSE old
           s2 == IF Raised(s1) THEN s1
                 ELSE cursor(s1, conn, args(st, k, h), kwargs(st, k, h))
       IN  set_sub(s2, k, h, s2.ret)
  ELSE IF ck = "connection"
  THEN LET s1 == RetryConnection_init(st, args(st, k, h), kwargs(st, k, h))
       IN  set_sub(s1, k, h, s1.ret)
  ELSE logging(st)

\* Mutant of solve_conn_curs: a cursor's renewal builds a connection whether
\* or not the owning connection reports closed.
solve_conn_curs_always_connect(st, k, h, ck, x) ==
  IF Raised(st) THEN st
  ELSE IF ck = "cursor"
  THEN LET old == getattribute(st, "cursor", x, "connection")
           renew == TRUE
           s1 == IF renew
                 THEN RetryConnection_init(st, args(st, "connection", old),
                                           kwargs(st, "connection", old))
                 ELSE st
           conn == IF renew THEN s1.ret ELSE old
           s2 == IF Raised(s1) THEN s1
                 ELSE cursor(s1, conn, args(st, k, h), kwargs(st, k, h))
       IN  set_sub(s2, k, h, s2.ret)
  ELSE IF ck = "connection"
  THEN LET s1 == RetryConnection_init(st, args(st, k, h), kwargs(st, k, h))
       IN  set_sub(s1, k, h, s1.ret)
  ELSE logging(st)

\* Mutant of solve_conn_curs: the connection built for a cursor is also made
\* the successor of the closed connection.
solve_conn_curs_attach_connection(st, k, h, ck, x) ==
  IF Raised(st) THEN st
  ELSE IF ck = "cursor"
  THEN LET old == getattribute(st, "cursor", x, "connection")
           renew == getattribute(st, "connection", old, "closed")
           s0 == IF renew
                 THEN RetryConnection_init(st, args(st, "connection", old),
                                           kwargs(st, "connection", old))
                 ELSE st
           s1 == IF renew THEN set_sub(s0, "connection", old, s0.ret) ELSE s0
           conn == IF renew THEN s1.ret ELSE old
           s2 == IF Raised(s1) THEN s1
                 ELSE cursor(s1, conn, args(st, k, h), kwargs(st, k, h))
       IN  set_sub(s2, k, h, s2.ret)
  ELSE IF ck = "connection"
  THEN LET s1 == RetryConnection_init(st, args(st, k, h), kwargs(st, k, h))
       IN  set_sub(s1, k, h, s1.ret)
  ELSE logging(st)

\* BaseRenew.solve_conn_curs: self is the handle (k, h), cur_conn the object
\* (ck, x) whose class decides the branch.
solve_conn_curs(st, k, h, ck, x) ==
  IF Raised(st) THEN st
  ELSE IF ck = "cursor"
  THEN LET old == getattribute(st, "cursor", x, "connection")
           renew == getattribute(st, "connection", old, "closed")
           s1 == IF renew
                 THEN RetryConnection_init(st, args(st, "connection", old),
                                           kwargs(st, "connection", old))
                 ELSE st
           conn == IF renew THEN s1.ret ELSE old
           s2 == IF Raised(s1) THEN s1
                 ELSE cursor(s1, conn, args(st, k, h), kwargs(st, k, h))
       IN  set_sub(s2, k, h, s2.ret)
  ELSE IF ck = "connection"
  THEN LET s1 == RetryConnection_init(st, args(st, k, h), kwargs(st, k, h))
       IN  set_sub(s1, k, h, s1.ret)
  ELSE logging(st)

\* RetryCursor.execute and RenewCursor.__execute
RECURSIVE execute(_, _, _)

\* Mutant of private_execute: after the successor has executed the
\* statement the cursor's own driver-level execute runs it too.
private_execute_both(st, c, sql) ==
  IF Raised(st) THEN st
  ELSE IF sub(st, "cursor", c) # None
       THEN Driver_execute(execute(st, sub(st, "cursor", c), sql), c, sql)
       ELSE Driver_execute(st, c, sql)

\* Mutant of private_execute: the statement goes to the cursor's own
\* driver-level execute although a successor exists.
private_execute_own(st, c, sql) ==
  IF Raised(st) THEN st ELSE Driver_execute(st, c, sql)

private_execute(st, c, sql) ==
  IF Raised(st) THEN st
  ELSE IF sub(st, "cursor", c) # None
       THEN execute(st, sub(st, "cursor", c), sql)
       ELSE Driver_execute(st, c, sql)

\* Python's truth value of a string: every non-empty string is true.
Truthy(str) == str # ""

\* The except InterfaceError clause of RenewCursor.execute, entered with the
\* caught exception e and the exception cleared.
execute_except(st, c, sql, e) ==
  LET msg == e.msg
      s1 == IF Truthy("cursor already closed")
            THEN solve_conn_curs(logging(method_close(st, "cursor", c)),
                                 "cursor", c, "cursor", c)
            ELSE IF "connection already closed" = msg
            THEN solve_conn_curs(
                   logging(method_close(
                     st, "connection",
                     getattribute(st, "cursor", c, "connection"))),
                   "cursor", c, "cursor", c)
            ELSE Raise(st, e)
  IN  private_execute(s1, c, sql)

execute(st, c, sql) ==
  IF Raised(st) THEN st
  ELSE LET s1 == IF getattribute(
                      st, "connection",
                      getattribute(st, "cursor", c, "connection"), "closed")
                 THEN solve_conn_curs(logging(st), "cursor", c, "cursor", c)
                 ELSE st
           s2 == IF Raised(s1) THEN s1
                 ELSE IF getattribute(s1, "cursor", c, "closed")
                 THEN solve_conn_curs(logging(s1), "cursor", c, "cursor", c)
                 ELSE s1
           s3 == private_execute(s2, c, sql)
       IN  IF s3.exc.cls = "InterfaceError"
           THEN execute_except([s3 EXCEPT !.exc = NoExc], c, sql, s3.exc)
           ELSE s3

\* ------------------------------------------------------------ the caller
Conns == 1..Len(conns)
Curs == 1..Len(curs)

\* What the caller's handle reported when the call began.
Entry(k, h) ==
  LET st == State(conns, curs, <<>>)
  IN  [sub |-> sub(st, k, h),
       closed |-> getattribute(st, k, h, "closed"),
       conn |-> IF k = "cursor"
                THEN getattribute(st, k, h, "connection") ELSE None,
       connClosed |-> IF k = "cursor"
                      THEN getattribute(
                             st, "connection",
                             getattribute(st, k, h, "connection"), "closed")
                      ELSE FALSE]
NoEntry == [sub |-> None, closed |-> FALSE, conn |-> None, connClosed |-> FALSE]

Call(op, k, h, sql, entry, st) ==
  [op |-> op, k |-> k, h |-> h, sql |-> sql, entry |-> entry,
   trace |-> st.trace, exc |-> st.exc, ret |-> st.ret]

\* The call ran within the bounds; its effects become the program's state.
Commit(op, k, h, sql, entry, st) ==
  /\ st.exc # Overflow
  /\ conns' = st.conns
  /\ curs' = st.curs
  /\ call' = Call(op, k, h, sql, entry, st)

Init ==
  /\ conns = <<>>
  /\ curs = <<>>
  /\ call = Call("init", "none", None, "", NoEntry, State(<<>>, <<>>, <<>>))

\* RetryConnection(dsn): the caller connects.
Connect ==
  Commit("connect", "connection", None, "", NoEntry,
         RetryConnection_init(State(conns, curs, <<>>),
                              <<Dsn(Len(conns) + 1)>>, {}))

\* n.cursor(*a, **kw)
Cursor ==
  \E n \in Conns, kw \in CallKwargs :
    Commit("cursor", "connection", n, "", Entry("connection", n),
           cursor(State(conns, curs, <<>>), n, <<Name(Len(curs) + 1)>>, kw))

\* c.execute(sql): the environment chooses the outcome of each driver-level
\* attempt when the call reaches it.
RECURSIVE ExecuteWith(_, _, _)
ExecuteWith(c, sql, outs) ==
  LET st == execute(State(conns, curs, outs), c, sql)
  IN  IF st.exc = Starved
      THEN \E o \in DriverOutcomes : ExecuteWith(c, sql, Append(outs, o))
      ELSE Commit("execute", "cursor", c, sql, Entry("cursor", c), st)

Execute == \E c \in Curs, sql \in Sqls : ExecuteWith(c, sql, <<>>)

\* c.close() on a cursor handle
CursorClose ==
  \E c \in Curs :
    Commit("close", "cursor", c, "", Entry("cursor", c),
           method_close(State(conns, curs, <<>>), "cursor", c))

\* n.close() on a connection handle
ConnectionClose ==
  \E n \in Conns :
    Commit("close", "connection", n, "", Entry("connection", n),
           method_close(State(conns, curs, <<>>), "connection", n))

\* BaseRenew.close(obj), named explicitly, recursive left at its default
BaseRenewClose ==
  \E k \in {"cursor", "connection"} :
    \E h \in IF k = "cursor" THEN Curs ELSE Conns :
      Commit("BaseRenew.close", k, h, "", Entry(k, h),
             close(State(conns, curs, <<>>), k, h, TRUE))

\* obj.solve_conn_curs(obj): renewal requested directly on a handle
Renew ==
  \E k \in {"cursor", "connection"} :
    \E h \in IF k = "cursor" THEN Curs ELSE Conns :
      Commit("solve_conn_curs", k, h, "", Entry(k, h),
             solve_conn_curs(State(conns, curs, <<>>), k, h, k, h))

\* obj.solve_conn_curs(x) with x neither a cursor nor a connection
RenewOther ==
  \E k \in {"cursor", "connection"} :
    \E h \in IF k = "cursor" THEN Curs ELSE Conns :
      Commit("solve_conn_curs(other)", k, h, "", Entry(k, h),
             solve_conn_curs(State(conns, curs, <<>>), k, h, "other", None))

Next ==
  \/ Connect
  \/ Cursor
  \/ Execute
  \/ CursorClose
  \/ ConnectionClose
  \/ BaseRenewClose
  \/ Renew
  \/ RenewOther

Spec == Init /\ [][Next]_vars

\* The caller uses only the documented surface: connecting, cursor(),
\* execute() and close(); solve_conn_curs is left to the two classes.
NextAPI ==
  \/ Connect
  \/ Cursor
  \/ Execute
  \/ CursorClose
  \/ ConnectionClose

SpecAPI == Init /\ [][NextAPI]_vars

\* ================================================================ claims
T == call.trace
Here == State(conns, curs, <<>>)
ExecAt == {i \in DOMAIN T : T[i].ev = "execute"}
CloseAt(k) == {i \in DOMAIN T : T[i].ev = "close" /\ T[i].k = k}
NewConnAt == {i \in DOMAIN T : T[i].ev = "new_conn"}
NewCurAt == {i \in DOMAIN T : T[i].ev = "new_cur"}
ClosedClass == {CursorClosedError, ConnectionClosedError}
StoredSpec(k, h) == ConstructionSpec(args(Here, k, h), kwargs(Here, k, h))

\* C1: an execute on a cursor without successor whose connection reports
\* closed, the driver failing no attempt, builds exactly one connection and
\* one cursor, makes exactly one driver-level execute, which succeeds, and
\* returns without raising.
C1_OneRenewalOneExecute ==
  (/\ call.op = "execute"
   /\ call.entry.sub = None
   /\ call.entry.connClosed
   /\ \A i \in ExecAt : T[i].res = NoExc)
  => /\ call.exc = NoExc
     /\ Cardinality(NewConnAt) = 1
     /\ Cardinality(NewCurAt) = 1
     /\ Cardinality(ExecAt) = 1

\* C2: when a driver-level execute raises an error that is neither of the
\* two closed conditions, nothing is closed, renewed or executed after it
\* and the caller receives that error.
C2_OtherErrorPropagates ==
  call.op = "execute"
  => \A i \in ExecAt :
       T[i].res \notin ClosedClass \cup {NoExc}
       => /\ call.exc = T[i].res
          /\ \A j \in DOMAIN T : j <= i

C4_CursorClosedOnceFirst ==
  call.op = "execute"
  => \A i \in ExecAt :
       T[i].res = CursorClosedError
       => /\ Cardinality({j \in CloseAt("cursor") : T[j].h = T[i].h}) = 1
          /\ Cardinality({j \in DOMAIN T : T[j].ev = "close" /\ j > i}) = 1
          /\ i + 1 \in CloseAt("cursor")
          /\ T[i + 1].h = T[i].h
          /\ \A j \in NewCurAt : j > i + 1

\* C4 witness: an execute call whose attempt raised 'cursor already closed'
\* and which then closed that cursor.
C4_Witness ==
  /\ call.op = "execute"
  /\ \E i \in ExecAt :
       /\ T[i].res = CursorClosedError
       /\ i + 1 \in CloseAt("cursor")
       /\ curs[T[i].h].closed

\* C5: when a driver-level execute raises 'connection already closed', the
\* cursor's owning connection is closed exactly once, before any connection
\* is constructed.
C5_ConnectionClosedOnce ==
  call.op = "execute"
  => \A i \in ExecAt :
       T[i].res = ConnectionClosedError
       => /\ Cardinality(CloseAt("connection")) = 1
          /\ \A j \in CloseAt("connection") :
               /\ T[j].h = curs[T[i].h].conn
               /\ \A m \in NewConnAt : j < m

\* The cursor at the end of c's successor chain.
RECURSIVE ChainEnd(_)
ChainEnd(c) == IF curs[c].sub = None THEN c ELSE ChainEnd(curs[c].sub)

\* C6: reading closed, connection, fetchone or fetchall on a cursor yields
\* what its successor yields, which is the value of the cursor at the end of
\* the successor chain; without successor it yields the cursor's own value.
C6_ReadsFollowSuccessor ==
  \A c \in Curs :
    \A key \in {"closed", "connection", "fetchone", "fetchall"} :
      /\ getattribute(Here, "cursor", c, key)
           = Driver_getattr(Here, "cursor", ChainEnd(c), key)
      /\ curs[c].sub # None
         => getattribute(Here, "cursor", c, key)
              = getattribute(Here, "cursor", curs[c].sub, key)

\* C6 witness: a closed cursor of a closed connection whose successor is an
\* open cursor of another connection; the reads report the successor's.
C6_Witness ==
  \E c \in Curs :
    /\ curs[c].sub # None
    /\ curs[c].closed
    /\ curs[curs[c].sub].conn # curs[c].conn
    /\ ~getattribute(Here, "cursor", c, "closed")
    /\ getattribute(Here, "cursor", c, "connection") = curs[curs[c].sub].conn
    /\ getattribute(Here, "cursor", c, "fetchone") = <<"fetchone", curs[c].sub>>

\* C7: close() on a connection handle that has a successor closes the
\* successor first and then the handle's own connection, and does not raise.
C7_CloseClosesSuccessor ==
  (call.op = "close" /\ call.k = "connection" /\ call.entry.sub # None)
  => /\ call.exc = NoExc
     /\ conns[call.h].closed
     /\ conns[call.entry.sub].closed
     /\ T = <<Event("close", "connection", call.entry.sub),
              Event("close", "connection", call.h)>>

\* C8: a renewal of cursor C1, whose connection N1 reports closed, builds
\* the connection N2 from N1's stored arguments, creates the cursor C2 on N2
\* from C1's stored arguments, and leaves C1.connection reporting N2.
C8_RenewalUsesStoredArguments ==
  (/\ call.op = "solve_conn_curs"
   /\ call.k = "cursor"
   /\ call.entry.connClosed)
  => /\ call.exc = NoExc
     /\ Len(T) = 2
     /\ T[1].ev = "new_conn"
     /\ T[1].spec = StoredSpec("connection", call.entry.conn)
     /\ T[2].ev = "new_cur"
     /\ T[2].on = T[1].h
     /\ T[2].spec = StoredSpec("cursor", call.h)
     /\ curs[call.h].sub = T[2].h
     /\ getattribute(Here, "cursor", call.h, "connection") = T[1].h

\* C8 witness: such a renewal has happened, and the new connection is not
\* the one the cursor was created on.
C8_Witness ==
  /\ call.op = "solve_conn_curs"
  /\ call.k = "cursor"
  /\ call.entry.connClosed
  /\ call.exc = NoExc
  /\ getattribute(Here, "cursor", call.h, "connection") # curs[call.h].conn

\* C9: after a closed-class error of a driver-level execute come, in this
\* order, a close, the construction of the new cursor, and exactly one more
\* driver-level execute, with the same SQL.
C9_CloseRenewRetry ==
  call.op = "execute"
  => \A i \in ExecAt :
       (T[i].res \in ClosedClass /\ \A j \in ExecAt : i <= j)
       => \E c \in DOMAIN T, r \in NewCurAt, e \in ExecAt :
            /\ T[c].ev = "close"
            /\ i < c /\ c < r /\ r < e
            /\ T[e].sql = T[i].sql
            /\ ExecAt = {i, e}

\* C10: cursor() on a connection handle that reports closed renews the
\* handle from its stored arguments and returns a cursor of the new
\* successor, whose connection reports not closed; no cursor() call raises
\* the closed-class error.
C10_CursorRenewsClosedConnection ==
  call.op = "cursor"
  => /\ call.exc.cls # "InterfaceError"
     /\ call.entry.closed
        => /\ call.exc = NoExc
           /\ T[1].ev = "new_conn"
           /\ T[1].spec = StoredSpec("connection", call.h)
           /\ conns[call.h].sub = T[1].h
           /\ curs[call.ret].conn = T[1].h
           /\ ~getattribute(
                 Here, "connection",
                 getattribute(Here, "cursor", call.ret, "connection"),
                 "closed")

\* C10 witness: cursor() was called on a handle reporting closed and returned
\* a cursor.
C10_Witness ==
  /\ call.op = "cursor"
  /\ call.entry.closed
  /\ call.exc = NoExc
  /\ call.ret \in Curs
  /\ conns[call.h].closed

\* The connections on n's successor chain, n included.
RECURSIVE ConnChain(_)
ConnChain(n) ==
  IF conns[n].sub = None THEN {n} ELSE {n} \cup ConnChain(conns[n].sub)

\* The cursors on c's successor chain, c included.
RECURSIVE CurChain(_)
CurChain(c) ==
  IF curs[c].sub = None THEN {c} ELSE {c} \cup CurChain(curs[c].sub)

C12_FailureLengthensChain ==
  call.op = "execute"
  => /\ Cardinality(NewCurAt) <= Cardinality(ExecAt)
     /\ \A i \in ExecAt :
          (T[i].res \in ClosedClass /\ \A j \in ExecAt : i <= j)
          => /\ curs[T[i].h].sub # None
             /\ call.entry.sub # None => curs[call.entry.sub].sub # None

\* The cursors an execute call constructed in its pre-check, that is before
\* its first driver-level execute.
PreCheckNewCurAt == {j \in NewCurAt : \A i \in ExecAt : j < i}

\* C13: an execute call entered with the owning connection reporting closed
\* and the cursor reporting closed renews twice in its pre-check: two
\* replacement cursors are constructed before the first driver-level execute.
C13_PreCheckRenewsTwice ==
  (/\ call.op = "execute"
   /\ call.entry.connClosed
   /\ call.entry.closed)
  => Cardinality(PreCheckNewCurAt) = 2

\* The connection at the end of n's successor chain.
RECURSIVE ConnChainEnd(_)
ConnChainEnd(n) == IF conns[n].sub = None THEN n ELSE ConnChainEnd(conns[n].sub)

\* C14: a call on a cursor constructs a connection only if the cursor's
\* owning connection reported closed; a renewal of a cursor whose owning
\* connection reports not closed constructs no connection and creates the
\* one replacement cursor through that connection: on the connection itself
\* when it has no successor, else on the end of its successor chain.
C14_ConnectionBuiltOnlyIfClosed ==
  (call.k = "cursor" /\ call.op \in {"solve_conn_curs", "execute"})
  => /\ NewConnAt # {} => call.entry.connClosed
     /\ (call.op = "solve_conn_curs" /\ ~call.entry.connClosed)
        => /\ call.exc = NoExc
           /\ Len(T) = 1
           /\ T[1].ev = "new_cur"
           /\ T[1].on = ConnChainEnd(call.entry.conn)
           /\ conns[call.entry.conn].sub = None => T[1].on = call.entry.conn
           /\ curs[call.h].sub = T[1].h
           /\ curs[T[1].h].conn = T[1].on

\* C14 witness: a closed cursor of an open connection was renewed; the
\* replacement cursor is on that connection and no connection was built.
C14_Witness ==
  /\ call.op = "solve_conn_curs"
  /\ call.k = "cursor"
  /\ call.entry.closed
  /\ ~call.entry.connClosed
  /\ NewConnAt = {}
  /\ curs[call.h].sub \in Curs
  /\ curs[curs[call.h].sub].conn = call.entry.conn
  /\ ~conns[call.entry.conn].closed

\* C15: every cursor the program holds stores the arguments of the cursor()
\* call that created it, with the cursor factory among the keyword
\* arguments, and not the (connection, name) its constructor received; a
\* cursor() call returns a cursor storing that call's arguments, and a
\* replacement cursor stores what the renewed cursor stores.
C15_CursorStoresCallArguments ==
  /\ \A c \in Curs :
       /\ \E i \in 1..c : curs[c].args = <<Name(i)>>
       /\ curs[c].kwargs = {<<"cursor_factory", "RenewCursor">>}
  /\ \A j \in NewCurAt :
       /\ StoredSpec("cursor", T[j].h) = T[j].spec
       /\ T[j].spec.args # <<"<connection>", T[j].spec.args[1]>>
  /\ (call.op = "cursor" /\ call.exc = NoExc)
     => /\ call.ret \in Curs
        /\ \E j \in NewCurAt : T[j].h = call.ret
        /\ StoredSpec("cursor", call.ret)
             = ConstructionSpec(<<Name(call.ret)>>,
                                {<<"cursor_factory", "RenewCursor">>})
  /\ (call.op = "solve_conn_curs" /\ call.k = "cursor" /\ call.exc = NoExc)
     => StoredSpec("cursor", curs[call.h].sub) = StoredSpec("cursor", call.h)

\* C15 witness: a renewal gave a cursor a replacement that stores the
\* renewed cursor's cursor() arguments.
C15_Witness ==
  /\ call.op = "solve_conn_curs"
  /\ call.k = "cursor"
  /\ call.exc = NoExc
  /\ curs[call.h].sub \in Curs
  /\ curs[curs[call.h].sub].args = curs[call.h].args
  /\ <<"cursor_factory", "RenewCursor">> \in curs[curs[call.h].sub].kwargs

\* C16: every driver-level execute of an execute call is made on a cursor
\* without successor, the end of the called cursor's chain; when the called
\* cursor has a successor no driver-level execute is made on the called
\* cursor itself.
C16_ExecuteDelegatedToSuccessor ==
  call.op = "execute"
  => \A i \in ExecAt :
       /\ curs[T[i].h].sub = None
       /\ T[i].h = ChainEnd(call.h)
       /\ call.entry.sub # None => T[i].h # call.h
       /\ call.entry.sub = None => T[i].h = call.h

\* C16 witness: an execute call on a cursor with a successor whose
\* driver-level execute was made on the successor.
C16_Witness ==
  /\ call.op = "execute"
  /\ call.entry.sub # None
  /\ \E i \in ExecAt : T[i].h = call.entry.sub

\* C17: solve_conn_curs given an object that is neither a cursor nor a
\* connection returns without raising, constructs nothing, closes nothing
\* and leaves the handle's successor as it was.
C17_OtherObjectOnlyWarns ==
  call.op = "solve_conn_curs(other)"
  => /\ call.exc = NoExc
     /\ T = <<>>
     /\ sub(Here, call.k, call.h) = call.entry.sub

\* C18: a renewal of a cursor whose owning connection reports closed
\* changes no connection object that existed before: the owning connection
\* handle keeps its successor, the connection built is not attached to it,
\* and the handle still reports closed; and cursor() on a handle that
\* reports closed starts by building a connection.
C18_RenewalLeavesConnectionHandle ==
  [][
    /\ (/\ call'.op = "solve_conn_curs"
        /\ call'.k = "cursor"
        /\ call'.entry.connClosed
        /\ call'.exc = NoExc)
       => (LET n == call'.entry.conn
               new == call'.trace[1]
           IN  /\ n \in Conns
               /\ new.ev = "new_conn"
               /\ new.h \notin Conns
               /\ \A m \in Conns : conns'[m] = conns[m]
               /\ conns'[n].sub # new.h
               /\ getattribute(State(conns', curs', <<>>), "connection", n,
                               "closed"))
    /\ (call'.op = "cursor" /\ call'.entry.closed)
       => (/\ call'.trace # <<>>
           /\ call'.trace[1].ev = "new_conn")
  ]_vars

\* C18 witness: a cursor's renewal built a connection while the cursor's
\* owning connection handle stays closed, without successor, and reports
\* closed.
C18_Witness ==
  /\ call.op = "solve_conn_curs"
  /\ call.k = "cursor"
  /\ call.entry.connClosed
  /\ call.exc = NoExc
  /\ NewConnAt # {}
  /\ conns[call.entry.conn].sub = None
  /\ getattribute(Here, "connection", call.entry.conn, "closed")
  /\ ~getattribute(
        Here, "connection",
        getattribute(Here, "cursor", call.h, "connection"), "closed")

\* C19: after a renewal of a cursor that did not raise, the cursor has a
\* successor that reports not closed and whose connection reports not
\* closed, and the cursor itself reads closed and connection.closed false.
C19_RenewedCursorReportsOpen ==
  (call.op = "solve_conn_curs" /\ call.k = "cursor" /\ call.exc = NoExc)
  => /\ curs[call.h].sub \in Curs
     /\ curs[call.h].sub \in {T[j].h : j \in NewCurAt}
     /\ ~getattribute(Here, "cursor", curs[call.h].sub, "closed")
     /\ ~getattribute(
           Here, "connection",
           getattribute(Here, "cursor", curs[call.h].sub, "connection"),
           "closed")
     /\ ~getattribute(Here, "cursor", call.h, "closed")
     /\ ~getattribute(
           Here, "connection",
           getattribute(Here, "cursor", call.h, "connection"), "closed")

\* C19 witness: a cursor that reported closed, as did its connection, was
\* renewed and now reads closed false through its successor, the cursor
\* object itself staying on the closed connection.
C19_Witness ==
  /\ call.op = "solve_conn_curs"
  /\ call.k = "cursor"
  /\ call.exc = NoExc
  /\ call.entry.closed
  /\ call.entry.connClosed
  /\ Driver_getattr(Here, "cursor", call.h, "closed")
  /\ ~getattribute(Here, "cursor", call.h, "closed")

\* C20: an execute call entered with neither the cursor nor its owning
\* connection reporting closed, and whose driver-level executes do not
\* raise, returns without raising after exactly one driver-level execute of
\* the given statement on the end of the cursor's chain, and changes no
\* object: nothing is closed, nothing is constructed, every successor
\* reference and every stored argument is what it was.
C20_PlainExecuteChangesNothing ==
  [][
    (/\ call'.op = "execute"
     /\ ~call'.entry.closed
     /\ ~call'.entry.connClosed
     /\ \A i \in DOMAIN call'.trace :
          call'.trace[i].ev = "execute" => call'.trace[i].res = NoExc)
    => (/\ call'.exc = NoExc
        /\ Len(call'.trace) = 1
        /\ call'.trace[1].ev = "execute"
        /\ call'.trace[1].sql = call'.sql
        /\ call'.trace[1].h = ChainEnd(call'.h)
        /\ conns' = conns
        /\ curs' = curs)
  ]_vars

\* C20 witness: such a call on a cursor that has a successor: one
\* driver-level execute, made on the successor, and no error.
C20_Witness ==
  /\ call.op = "execute"
  /\ ~call.entry.closed
  /\ ~call.entry.connClosed
  /\ call.entry.sub # None
  /\ call.exc = NoExc
  /\ Len(T) = 1
  /\ T[1].ev = "execute"
  /\ T[1].res = NoExc

====
